---- MODULE Spec2Model ----
(***************************************************************************)
(* Shopify MCP server: the startup script (index.ts), the get-orders and   *)
(* get-order-by-id tools, and the tool calls the server handles.           *)
(***************************************************************************)
EXTENDS Integers, Sequences, FiniteSets, TLC

VARIABLES
    launch,                 \* how the process was started: the --accessToken and
                            \* --domain options and the environment (.env loaded)
    argv,                   \* minimist(process.argv.slice(2)): accessToken, domain
    env,                    \* process.env: SHOPIFY_ACCESS_TOKEN, MYSHOPIFY_DOMAIN
    SHOPIFY_ACCESS_TOKEN,   \* const of index.ts
    MYSHOPIFY_DOMAIN,       \* const of index.ts
    pc,                     \* position of the startup script
    ip,                     \* index of the next initialize / server.tool statement
    stderr,                 \* lines written by console.error
    exitCode,               \* <<>> while the process runs, <<code>> after process.exit
    shopifyClient,          \* const shopifyClient of index.ts
    toolClient,             \* the module-level `let shopifyClient` of each tool module
    registered,             \* names given to server.tool, in order
    connected,              \* server.connect(transport) was called
    calls,                  \* the tool calls handled by the server
    requests                \* per call, the requests handed to shopifyClient.request

vars == <<launch, argv, env, SHOPIFY_ACCESS_TOKEN, MYSHOPIFY_DOMAIN, pc, ip, stderr,
          exitCode, shopifyClient, toolClient, registered, connected, calls,
          requests>>

startupVars == <<launch, argv, env, SHOPIFY_ACCESS_TOKEN, MYSHOPIFY_DOMAIN, pc, ip,
                 stderr, exitCode, shopifyClient, toolClient, registered,
                 connected>>

-----------------------------------------------------------------------------
(* Bounds of the model *)

MaxCalls == 2
MaxEdges == 2

-----------------------------------------------------------------------------
(* JavaScript values *)

Undef == [t |-> "undefined"]
Null == [t |-> "null"]
Str(s) == [t |-> "string", v |-> s]
Num(n) == [t |-> "number", v |-> n]
Bool(b) == [t |-> "boolean", v |-> b]
Arr(s) == [t |-> "array", v |-> s]
\* an object: its own properties as <<key, value>> pairs in insertion order
Obj(ps) == [t |-> "object", v |-> ps]

\* ToBoolean
Truthy(x) ==
    CASE x.t = "undefined" -> FALSE
      [] x.t = "null" -> FALSE
      [] x.t = "string" -> x.v # ""
      [] x.t = "number" -> x.v # 0
      [] x.t = "boolean" -> x.v
      [] OTHER -> TRUE

\* a || b
Or(a, b) == IF Truthy(a) THEN a ELSE b

\* ToString of a primitive, as a template literal or process.env applies it
ToStr(x) ==
    CASE x.t = "undefined" -> "undefined"
      [] x.t = "null" -> "null"
      [] x.t = "string" -> x.v
      [] x.t = "number" -> ToString(x.v)
      [] x.t = "boolean" -> IF x.v THEN "true" ELSE "false"
      [] OTHER -> "[object Object]"

HasKey(o, k) == o.t = "object" /\ \E i \in 1..Len(o.v) : o.v[i][1] = k

\* o[k] for an object o
Get(o, k) ==
    IF HasKey(o, k)
    THEN o.v[CHOOSE i \in 1..Len(o.v) : o.v[i][1] = k][2]
    ELSE Undef

\* o[k] = x
Set(o, k, x) ==
    IF HasKey(o, k)
    THEN Obj([i \in 1..Len(o.v) |-> IF o.v[i][1] = k THEN <<k, x>> ELSE o.v[i]])
    ELSE Obj(Append(o.v, <<k, x>>))

\* completion records: a value, or a thrown Error with its message
Return(x) == [ok |-> TRUE, value |-> x]
Throw(m) == [ok |-> FALSE, message |-> m]

\* v.k: a property read throws a TypeError on undefined and null
ReadProp(x, k) ==
    IF x.t \in {"undefined", "null"}
    THEN Throw("Cannot read properties of " \o x.t \o " (reading '" \o k \o "')")
    ELSE Return(IF x.t = "object" THEN Get(x, k) ELSE Undef)

-----------------------------------------------------------------------------
(* index.ts: startup *)

\* a bare option on the command line, --accessToken with no value
Flag == [t |-> "flag"]

Digits == {"0", "1", "2", "3", "4", "5", "6", "7", "8", "9"}

\* minimist's isNumber, for decimal digits: the text is a number
IsNumber(s) == Len(s) > 0 /\ \A i \in 1..Len(s) : SubSeq(s, i, i) \in Digits

DigitValue(d) ==
    CASE d = "0" -> 0 [] d = "1" -> 1 [] d = "2" -> 2 [] d = "3" -> 3
      [] d = "4" -> 4 [] d = "5" -> 5 [] d = "6" -> 6 [] d = "7" -> 7
      [] d = "8" -> 8 [] d = "9" -> 9

RECURSIVE NumberOf(_)
\* Number(s) of a text of digits
NumberOf(s) ==
    IF Len(s) = 0 THEN 0
    ELSE 10 * NumberOf(SubSeq(s, 1, Len(s) - 1)) + DigitValue(SubSeq(s, Len(s), Len(s)))

\* argv[key] as minimist gives it: undefined without the option, true for a
\* bare option, the number for --key=<digits>, else the text of --key=<text>
Minimist(option) ==
    CASE option.t = "undefined" -> Undef
      [] option.t = "flag" -> Bool(TRUE)
      [] option.t = "string" ->
            IF IsNumber(option.v) THEN Num(NumberOf(option.v)) ELSE option
      [] OTHER -> option

\* the tool modules, in the order of their initialize calls
InitOrder ==
    <<"getProducts", "getProductById", "getCollections", "getPages", "getBlogs",
      "getArticles", "getBlogById", "getArticleById", "searchShopify",
      "getOrders", "getOrderById">>

\* the tool modules, in the order of their server.tool registrations
RegisterOrder ==
    <<"getProducts", "getProductById", "getCollections", "getPages", "getBlogs",
      "getArticles", "getBlogById", "getArticleById", "searchShopify",
      "getOrders", "getOrderById">>

\* the name each module is registered under
RegisteredName ==
    [m \in {InitOrder[i] : i \in 1..Len(InitOrder)} |->
        CASE m = "getProducts" -> "get-products"
          [] m = "getProductById" -> "get-product-by-id"
          [] m = "getCollections" -> "get-collections"
          [] m = "getPages" -> "get-pages"
          [] m = "getBlogs" -> "get-blogs"
          [] m = "getArticles" -> "get-articles"
          [] m = "getBlogById" -> "get-blog-by-id"
          [] m = "getArticleById" -> "get-article-by-id"
          [] m = "searchShopify" -> "search-shopify"
          [] m = "getOrders" -> "get-orders"
          [] m = "getOrderById" -> "get-order-by-id"]

Tools == {InitOrder[i] : i \in 1..Len(InitOrder)}

\* new GraphQLClient(`https://${MYSHOPIFY_DOMAIN}/admin/api/2025-01/graphql.json`, {headers})
GraphQLClient(domain, token) ==
    [t |-> "client",
     endpoint |-> "https://" \o ToStr(domain) \o "/admin/api/2025-01/graphql.json",
     accessToken |-> token,
     contentType |-> "application/json"]

\* const X = argv.x || process.env.X; process.env.X = X
ResolveConfig ==
    /\ pc = "resolve"
    /\ SHOPIFY_ACCESS_TOKEN' = Or(argv.accessToken, env.SHOPIFY_ACCESS_TOKEN)
    /\ MYSHOPIFY_DOMAIN' = Or(argv.domain, env.MYSHOPIFY_DOMAIN)
    /\ env' = [SHOPIFY_ACCESS_TOKEN |-> Str(ToStr(SHOPIFY_ACCESS_TOKEN')),
               MYSHOPIFY_DOMAIN |-> Str(ToStr(MYSHOPIFY_DOMAIN'))]
    /\ pc' = "checkToken"
    /\ UNCHANGED <<launch, argv, ip, stderr, exitCode, shopifyClient, toolClient,
                   registered, connected, calls, requests>>

\* mutant: the missing token is reported but the script goes on
CheckAccessToken_noExit ==
    /\ pc = "checkToken"
    /\ IF ~Truthy(SHOPIFY_ACCESS_TOKEN)
       THEN stderr' = stderr \o
                    <<"Error: SHOPIFY_ACCESS_TOKEN is required.",
                      "Please provide it via command line argument or .env file.",
                      "  Command line: --accessToken=your_token">>
       ELSE UNCHANGED stderr
    /\ pc' = "checkDomain"
    /\ UNCHANGED <<launch, argv, env, SHOPIFY_ACCESS_TOKEN, MYSHOPIFY_DOMAIN, ip, exitCode,
                   shopifyClient, toolClient, registered, connected, calls,
                   requests>>

\* if (!SHOPIFY_ACCESS_TOKEN) { console.error(...); process.exit(1) }
CheckAccessToken ==
    /\ pc = "checkToken"
    /\ IF ~Truthy(SHOPIFY_ACCESS_TOKEN)
       THEN /\ stderr' = stderr \o
                    <<"Error: SHOPIFY_ACCESS_TOKEN is required.",
                      "Please provide it via command line argument or .env file.",
                      "  Command line: --accessToken=your_token">>
            /\ exitCode' = <<1>>
            /\ pc' = "exited"
       ELSE /\ pc' = "checkDomain"
            /\ UNCHANGED <<stderr, exitCode>>
    /\ UNCHANGED <<launch, argv, env, SHOPIFY_ACCESS_TOKEN, MYSHOPIFY_DOMAIN, ip,
                   shopifyClient, toolClient, registered, connected, calls,
                   requests>>

\* if (!MYSHOPIFY_DOMAIN) { console.error(...); process.exit(1) }
CheckDomain ==
    /\ pc = "checkDomain"
    /\ IF ~Truthy(MYSHOPIFY_DOMAIN)
       THEN /\ stderr' = stderr \o
                    <<"Error: MYSHOPIFY_DOMAIN is required.",
                      "Please provide it via command line argument or .env file.",
                      "  Command line: --domain=your-store.myshopify.com">>
            /\ exitCode' = <<1>>
            /\ pc' = "exited"
       ELSE /\ pc' = "createClient"
            /\ UNCHANGED <<stderr, exitCode>>
    /\ UNCHANGED <<launch, argv, env, SHOPIFY_ACCESS_TOKEN, MYSHOPIFY_DOMAIN, ip,
                   shopifyClient, toolClient, registered, connected, calls,
                   requests>>

\* const shopifyClient = new GraphQLClient(...)
CreateClient ==
    /\ pc = "createClient"
    /\ shopifyClient' = GraphQLClient(MYSHOPIFY_DOMAIN, SHOPIFY_ACCESS_TOKEN)
    /\ pc' = "initialize"
    /\ ip' = 1
    /\ UNCHANGED <<launch, argv, env, SHOPIFY_ACCESS_TOKEN, MYSHOPIFY_DOMAIN, stderr,
                   exitCode, toolClient, registered, connected, calls, requests>>

\* mutant: initialize does not keep the client
getOrdersInitialize_forgets(client) == UNCHANGED toolClient

\* getOrders.initialize(client) { shopifyClient = client }
getOrdersInitialize(client) ==
    toolClient' = [toolClient EXCEPT !["getOrders"] = client]

\* getOrderById.initialize(client) { shopifyClient = client }
getOrderByIdInitialize(client) ==
    toolClient' = [toolClient EXCEPT !["getOrderById"] = client]

\* initialize of the nine tool modules outside src/: the same pattern
OtherInitialize(m, client) ==
    toolClient' = [toolClient EXCEPT ![m] = client]

\* the eleven <tool>.initialize(shopifyClient) statements, one per step
InitializeTool ==
    /\ pc = "initialize"
    /\ LET m == InitOrder[ip] IN
        CASE m = "getOrders" -> getOrdersInitialize(shopifyClient)
          [] m = "getOrderById" -> getOrderByIdInitialize(shopifyClient)
          [] OTHER -> OtherInitialize(m, shopifyClient)
    /\ IF ip = Len(InitOrder)
       THEN pc' = "register" /\ ip' = 1
       ELSE pc' = pc /\ ip' = ip + 1
    /\ UNCHANGED <<launch, argv, env, SHOPIFY_ACCESS_TOKEN, MYSHOPIFY_DOMAIN, stderr,
                   exitCode, shopifyClient, registered, connected, calls,
                   requests>>

\* the eleven server.tool(name, schema, handler) statements, one per step
RegisterTool ==
    /\ pc = "register"
    /\ registered' = Append(registered, RegisteredName[RegisterOrder[ip]])
    /\ IF ip = Len(RegisterOrder)
       THEN pc' = "connect" /\ ip' = 1
       ELSE pc' = pc /\ ip' = ip + 1
    /\ UNCHANGED <<launch, argv, env, SHOPIFY_ACCESS_TOKEN, MYSHOPIFY_DOMAIN, stderr,
                   exitCode, shopifyClient, toolClient, connected, calls,
                   requests>>

\* server.connect(new StdioServerTransport())
Connect ==
    /\ pc = "connect"
    /\ connected' = TRUE
    /\ pc' = "serving"
    /\ UNCHANGED <<launch, argv, env, SHOPIFY_ACCESS_TOKEN, MYSHOPIFY_DOMAIN, ip, stderr,
                   exitCode, shopifyClient, toolClient, registered, calls,
                   requests>>

-----------------------------------------------------------------------------
(* JSON.stringify *)

RECURSIVE JSONText(_), JSONElements(_, _), JSONMembers(_, _, _)

\* the text of a value that is not undefined; an undefined array element is null
JSONText(x) ==
    CASE x.t = "undefined" -> "null"
      [] x.t = "null" -> "null"
      [] x.t = "string" -> "\"" \o x.v \o "\""
      [] x.t = "number" -> ToString(x.v)
      [] x.t = "boolean" -> (IF x.v THEN "true" ELSE "false")
      [] x.t = "array" -> "[" \o JSONElements(x.v, 1) \o "]"
      [] x.t = "object" -> "{" \o JSONMembers(x.v, 1, TRUE) \o "}"

JSONElements(s, i) ==
    IF i > Len(s) THEN ""
    ELSE (IF i > 1 THEN "," ELSE "") \o JSONText(s[i]) \o JSONElements(s, i + 1)

\* the members of an object; a property whose value is undefined is left out
JSONMembers(ps, i, first) ==
    IF i > Len(ps) THEN ""
    ELSE IF ps[i][2].t = "undefined" THEN JSONMembers(ps, i + 1, first)
    ELSE (IF first THEN "" ELSE ",") \o "\"" \o ps[i][1] \o "\":"
            \o JSONText(ps[i][2]) \o JSONMembers(ps, i + 1, FALSE)

\* JSON.stringify(x): undefined for undefined, else the text
JSONStringify(x) == IF x.t = "undefined" THEN Undef ELSE Str(JSONText(x))

-----------------------------------------------------------------------------
(* Input schemas *)

DefaultLimit == 10

SortKeys ==
    {"CREATED_AT", "CUSTOMER_NAME", "ID", "ORDER_NUMBER", "PROCESSED_AT",
     "TOTAL_PRICE", "UPDATED_AT"}

\* z.string().optional()
OptionalString(x) == x.t \in {"undefined", "string"}

\* the get-orders shape given to server.tool: whether raw satisfies it
GetOrdersInputValid(raw) ==
    /\ OptionalString(raw.query)
    /\ raw.limit.t \in {"undefined", "number"}
    /\ OptionalString(raw.after)
    /\ OptionalString(raw.before)
    /\ raw.reverse.t \in {"undefined", "boolean"}
    /\ \/ raw.sortKey.t = "undefined"
       \/ raw.sortKey.t = "string" /\ raw.sortKey.v \in SortKeys

\* mutant: reverse and sortKey are optional without a default
GetOrdersInputParse_noDefaults(raw) ==
    [query |-> raw.query,
     limit |-> IF raw.limit.t = "undefined" THEN Num(DefaultLimit) ELSE raw.limit,
     after |-> raw.after,
     before |-> raw.before,
     reverse |-> raw.reverse,
     sortKey |-> raw.sortKey]

\* the parsed get-orders arguments: the defaults filled in
GetOrdersInputParse(raw) ==
    [query |-> raw.query,
     limit |-> IF raw.limit.t = "undefined" THEN Num(DefaultLimit) ELSE raw.limit,
     after |-> raw.after,
     before |-> raw.before,
     reverse |-> IF raw.reverse.t = "undefined" THEN Bool(FALSE) ELSE raw.reverse,
     sortKey |-> IF raw.sortKey.t = "undefined" THEN Str("PROCESSED_AT")
                 ELSE raw.sortKey]

\* mutant: min(1) is left out
GetOrderByIdInputValid_anyString(raw) == raw.orderId.t = "string"

\* GetOrderByIdInputSchema: orderId: z.string().min(1)
GetOrderByIdInputValid(raw) ==
    raw.orderId.t = "string" /\ Len(raw.orderId.v) >= 1

GetOrderByIdInputParse(raw) == [orderId |-> raw.orderId]

-----------------------------------------------------------------------------
(* getOrders.execute *)

\* mutant: after is tested before before
getOrdersVariables_afterFirst(input) ==
    LET v0 == Obj(<< <<"reverse", input.reverse>>, <<"sortKey", input.sortKey>> >>)
        v1 == IF Truthy(input.after)
              THEN Set(Set(v0, "first", input.limit), "after", input.after)
              ELSE IF Truthy(input.before)
              THEN Set(Set(v0, "last", input.limit), "before", input.before)
              ELSE Set(v0, "first", input.limit)
    IN IF Truthy(input.query) THEN Set(v1, "query", input.query) ELSE v1

\* mutant: the variables object is kept at module level and one object is
\* shared by the calls in flight
getOrdersVariables_shared(input) ==
    IF \E d \in DOMAIN calls : calls[d].st = "awaiting" /\ calls[d].tool = "getOrders"
    THEN requests[CHOOSE d \in DOMAIN calls :
                    calls[d].st = "awaiting" /\ calls[d].tool = "getOrders"][1].variables
    ELSE LET v0 == Obj(<< <<"reverse", input.reverse>>, <<"sortKey", input.sortKey>> >>)
             v1 == IF Truthy(input.before)
                   THEN Set(Set(v0, "last", input.limit), "before", input.before)
                   ELSE LET w == Set(v0, "first", input.limit) IN
                        IF Truthy(input.after) THEN Set(w, "after", input.after) ELSE w
         IN IF Truthy(input.query) THEN Set(v1, "query", input.query) ELSE v1

\* the variables of the request: reverse and sortKey, then the pagination
\* keys, then the search query
getOrdersVariables(input) ==
    LET v0 == Obj(<< <<"reverse", input.reverse>>, <<"sortKey", input.sortKey>> >>)
        v1 == IF Truthy(input.before)
              THEN Set(Set(v0, "last", input.limit), "before", input.before)
              ELSE LET w == Set(v0, "first", input.limit) IN
                   IF Truthy(input.after) THEN Set(w, "after", input.after) ELSE w
    IN IF Truthy(input.query) THEN Set(v1, "query", input.query) ELSE v1

RECURSIVE MapPropFrom(_, _, _)
\* s.map(e => e[k]) from index i on: the values, or the first throw
MapPropFrom(s, k, i) ==
    IF i > Len(s) THEN Return(<<>>)
    ELSE LET head == ReadProp(s[i], k) IN
         IF ~head.ok THEN head
         ELSE LET rest == MapPropFrom(s, k, i + 1) IN
              IF ~rest.ok THEN rest ELSE Return(<<head.value>> \o rest.value)

\* mutant: the mapped values are filtered, undefined ones dropped
MapProp_filtered(x, k, what) ==
    IF x.t \in {"undefined", "null"}
    THEN Throw("Cannot read properties of " \o x.t \o " (reading 'map')")
    ELSE IF x.t # "array" THEN Throw(what \o ".map is not a function")
    ELSE LET r == MapPropFrom(x.v, k, 1) IN
         IF r.ok
         THEN Return(Arr(SelectSeq(r.value, LAMBDA e : e.t # "undefined")))
         ELSE r

\* x.map(e => e[k]), where x is the value read as `what`
MapProp(x, k, what) ==
    IF x.t \in {"undefined", "null"}
    THEN Throw("Cannot read properties of " \o x.t \o " (reading 'map')")
    ELSE IF x.t # "array" THEN Throw(what \o ".map is not a function")
    ELSE LET r == MapPropFrom(x.v, k, 1) IN
         IF r.ok THEN Return(Arr(r.value)) ELSE r

\* return { orders: ..., pageInfo: ..., cursors: ... }
getOrdersResult(data) ==
    LET orders == ReadProp(data, "orders") IN
    IF ~orders.ok THEN orders
    ELSE LET edges == ReadProp(orders.value, "edges") IN
    IF ~edges.ok THEN edges
    ELSE LET nodes == MapProp(edges.value, "node", "data.orders.edges") IN
    IF ~nodes.ok THEN nodes
    ELSE LET pageInfo == ReadProp(orders.value, "pageInfo")
             cursors == MapProp(edges.value, "cursor", "data.orders.edges")
    IN IF ~pageInfo.ok THEN pageInfo
       ELSE IF ~cursors.ok THEN cursors
       ELSE Return(Obj(<< <<"orders", nodes.value>>,
                          <<"pageInfo", pageInfo.value>>,
                          <<"cursors", cursors.value>> >>))

\* mutant: the catch block answers with an empty page instead of failing
getOrdersCatch_empty(completion) ==
    IF completion.ok THEN completion
    ELSE Return(Obj(<< <<"orders", Arr(<<>>)>>, <<"cursors", Arr(<<>>)>> >>))

\* catch (error) { throw new Error(`Failed to fetch orders: ${error.message}`) }
getOrdersCatch(completion) ==
    IF completion.ok THEN completion
    ELSE Throw("Failed to fetch orders: " \o completion.message)

\* what execute does with the settled request: response is the data the
\* request resolved with, or the error it rejected with
getOrdersSettle(response) ==
    getOrdersCatch(IF response.ok THEN getOrdersResult(response.value)
                   ELSE response)

-----------------------------------------------------------------------------
(* getOrderById.execute *)

\* const variables = { id: orderId }
getOrderByIdVariables(input) == Obj(<< <<"id", input.orderId>> >>)

\* mutant: the missing-order check is left out
getOrderByIdResult_unchecked(data, input) ==
    LET order == ReadProp(data, "order") IN
    IF ~order.ok THEN order ELSE Return(order.value)

\* if (!data.order) throw new Error(`Order not found with ID: ${orderId}`);
\* return data.order
getOrderByIdResult(data, input) ==
    LET order == ReadProp(data, "order") IN
    IF ~order.ok THEN order
    ELSE IF ~Truthy(order.value)
    THEN Throw("Order not found with ID: " \o ToStr(input.orderId))
    ELSE Return(order.value)

\* catch (error) { throw new Error(`Failed to fetch order: ${error.message}`) }
getOrderByIdCatch(completion) ==
    IF completion.ok THEN completion
    ELSE Throw("Failed to fetch order: " \o completion.message)

getOrderByIdSettle(response, input) ==
    getOrderByIdCatch(IF response.ok
                      THEN getOrderByIdResult(response.value, input)
                      ELSE response)

-----------------------------------------------------------------------------
(* The server.tool handlers *)

\* mutant: a failure of execute is answered as a text item
Handler_errorAsText(outcome) ==
    IF outcome.ok
    THEN Return([content |-> <<[type |-> "text",
                                text |-> JSONStringify(outcome.value)]>>])
    ELSE Return([content |-> <<[type |-> "text", text |-> Str(outcome.message)]>>])

\* const result = await tool.execute(args);
\* return { content: [{ type: "text", text: JSON.stringify(result) }] }
Handler(outcome) ==
    IF outcome.ok
    THEN Return([content |-> <<[type |-> "text",
                                text |-> JSONStringify(outcome.value)]>>])
    ELSE outcome

-----------------------------------------------------------------------------
(* Tool calls *)

IdleCall ==
    [st |-> "idle", tool |-> "", raw |-> Undef, input |-> Undef,
     response |-> Undef, outcome |-> Undef, answer |-> Undef]

\* the call ended before the request settled: nothing was awaited
Ended(c, m, raw, input, outcome) ==
    calls' = [calls EXCEPT ![c] =
                [st |-> "done", tool |-> m, raw |-> raw, input |-> input,
                 response |-> Undef, outcome |-> outcome,
                 answer |-> Handler(outcome)]]

\* await shopifyClient.request(query, variables) in tool module m: the request
\* is handed to the module's client and execute waits; with no client bound
\* the member read throws inside the try block and execute ends with thrown,
\* what its catch block makes of that TypeError
Request(c, m, raw, input, query, variables, thrown) ==
    IF toolClient[m].t = "undefined"
    THEN /\ Ended(c, m, raw, input, thrown)
         /\ UNCHANGED requests
    ELSE /\ requests' = [requests EXCEPT ![c] =
                Append(@, [client |-> toolClient[m], query |-> query,
                           variables |-> variables])]
         /\ calls' = [calls EXCEPT ![c] =
                [st |-> "awaiting", tool |-> m, raw |-> raw, input |-> input,
                 response |-> Undef, outcome |-> Undef, answer |-> Undef]]

\* the server refuses arguments that do not satisfy the registered schema:
\* the handler is not called
Refuse(c, m, raw) ==
    /\ calls' = [calls EXCEPT ![c] =
            [st |-> "invalid", tool |-> m, raw |-> raw, input |-> Undef,
             response |-> Undef, outcome |-> Undef,
             answer |-> Throw("Invalid arguments for tool " \o RegisteredName[m])]]
    /\ UNCHANGED requests

\* getOrders.execute(input), up to the await
getOrdersExecute(c, raw, input) ==
    Request(c, "getOrders", raw, input, "GetOrders", getOrdersVariables(input),
            getOrdersCatch(ReadProp(toolClient["getOrders"], "request")))

\* getOrderById.execute(input), up to the await
getOrderByIdExecute(c, raw, input) ==
    Request(c, "getOrderById", raw, input, "GetOrderById",
            getOrderByIdVariables(input),
            getOrderByIdCatch(ReadProp(toolClient["getOrderById"], "request")))

\* a get-orders call arrives with arguments raw
CallGetOrders(c, raw) ==
    /\ pc = "serving"
    /\ calls[c].st = "idle"
    /\ IF GetOrdersInputValid(raw)
       THEN getOrdersExecute(c, raw, GetOrdersInputParse(raw))
       ELSE Refuse(c, "getOrders", raw)
    /\ UNCHANGED startupVars

\* a get-order-by-id call arrives with arguments raw
CallGetOrderById(c, raw) ==
    /\ pc = "serving"
    /\ calls[c].st = "idle"
    /\ IF GetOrderByIdInputValid(raw)
       THEN getOrderByIdExecute(c, raw, GetOrderByIdInputParse(raw))
       ELSE Refuse(c, "getOrderById", raw)
    /\ UNCHANGED startupVars

\* mutant: a rejected request is issued once more
GetOrdersSettled_retry(c, response) ==
    /\ calls[c].st = "awaiting"
    /\ calls[c].tool = "getOrders"
    /\ IF ~response.ok /\ Len(requests[c]) = 1
       THEN /\ requests' = [requests EXCEPT ![c] = Append(@, @[1])]
            /\ UNCHANGED calls
       ELSE /\ LET outcome == getOrdersSettle(response) IN
                calls' = [calls EXCEPT ![c] =
                    [@ EXCEPT !.st = "done", !.response = response,
                              !.outcome = outcome, !.answer = Handler(outcome)]]
            /\ UNCHANGED requests
    /\ UNCHANGED startupVars

\* the request of a get-orders call settles; execute and the handler finish
GetOrdersSettled(c, response) ==
    /\ calls[c].st = "awaiting"
    /\ calls[c].tool = "getOrders"
    /\ LET outcome == getOrdersSettle(response) IN
        calls' = [calls EXCEPT ![c] =
                    [@ EXCEPT !.st = "done", !.response = response,
                              !.outcome = outcome, !.answer = Handler(outcome)]]
    /\ UNCHANGED <<startupVars, requests>>

\* the request of a get-order-by-id call settles; execute and the handler finish
GetOrderByIdSettled(c, response) ==
    /\ calls[c].st = "awaiting"
    /\ calls[c].tool = "getOrderById"
    /\ LET outcome == getOrderByIdSettle(response, calls[c].input) IN
        calls' = [calls EXCEPT ![c] =
                    [@ EXCEPT !.st = "done", !.response = response,
                              !.outcome = outcome, !.answer = Handler(outcome)]]
    /\ UNCHANGED <<startupVars, requests>>

\* a call of one of the nine other tools: its execute, outside src/, ends with
\* some outcome and the handler answers
CallOtherTool(c, m, outcome) ==
    /\ pc = "serving"
    /\ calls[c].st = "idle"
    /\ Ended(c, m, Undef, Undef, outcome)
    /\ UNCHANGED <<startupVars, requests>>

-----------------------------------------------------------------------------
(* Inputs: command lines, environments, arguments and responses *)

SeqsUpTo(S, n) == UNION {[1..k -> S] : k \in 0..n}

Order1 == Obj(<< <<"id", Str("gid://shopify/Order/1")>>, <<"name", Str("#1001")>> >>)
Order2 == Obj(<< <<"id", Str("gid://shopify/Order/2")>>, <<"name", Str("#1002")>> >>)

Edge(node, cursor) == Obj(<< <<"cursor", Str(cursor)>>, <<"node", node>> >>)

PageInfo1 ==
    Obj(<< <<"hasNextPage", Bool(TRUE)>>, <<"hasPreviousPage", Bool(FALSE)>>,
           <<"startCursor", Str("c1")>>, <<"endCursor", Str("c2")>> >>)

\* { orders: { pageInfo, edges } }; a pageInfo of undefined is an absent key
OrdersData(edges, pageInfo) ==
    Obj(<< <<"orders",
             Obj((IF pageInfo.t = "undefined" THEN <<>>
                  ELSE << <<"pageInfo", pageInfo>> >>)
                 \o << <<"edges", Arr(edges)>> >>)>> >>)

\* responses without orders or edges, and rejections
OrdersFailures ==
    {Return(Obj(<<>>)), Return(Null), Return(Obj(<< <<"orders", Null>> >>)),
     Return(Obj(<< <<"orders", Obj(<<>>)>> >>)),
     Return(Obj(<< <<"orders", Obj(<< <<"edges", Str("none")>> >>)>> >>)),
     Throw("GraphQL Error (Code: 401)"), Throw("fetch failed")}

\* every response shape of a get-orders request
AllOrdersResponses ==
    {Return(OrdersData(es, pi)) :
        es \in SeqsUpTo({Edge(Order1, "c1"), Edge(Order2, "c2"),
                         Obj(<< <<"cursor", Str("c3")>> >>), Null}, MaxEdges),
        pi \in {PageInfo1, Undef}}
    \cup OrdersFailures

FewOrdersResponses ==
    {Return(OrdersData(<<Edge(Order1, "c1")>>, PageInfo1)),
     Return(OrdersData(<<Edge(Order2, "c2")>>, PageInfo1)),
     Throw("fetch failed")}

\* every response shape of a get-order-by-id request
AllOrderResponses ==
    {Return(Obj(<< <<"order", Order1>> >>)), Return(Obj(<< <<"order", Order2>> >>)),
     Return(Obj(<< <<"order", Null>> >>)), Return(Obj(<<>>)),
     Return(Obj(<< <<"order", Bool(FALSE)>> >>)), Return(Null),
     Throw("GraphQL Error (Code: 401)"), Throw("fetch failed")}

FewOrderResponses ==
    {Return(Obj(<< <<"order", Order1>> >>)), Return(Obj(<< <<"order", Order2>> >>)),
     Return(Obj(<< <<"order", Null>> >>)), Throw("fetch failed")}

\* arguments of a get-orders call, valid and invalid
AllOrdersArgs ==
    [query : {Undef, Str(""), Str("status:open")},
     limit : {Undef, Num(5), Str("5")},
     after : {Undef, Str(""), Str("curA"), Num(7)},
     before : {Undef, Str(""), Str("curB")},
     reverse : {Undef, Bool(TRUE), Str("yes")},
     sortKey : {Undef, Str("ID"), Str("PRICE")}]

FewOrdersArgs ==
    [query : {Undef}, limit : {Num(5), Num(7)}, after : {Undef},
     before : {Undef, Str("curB")}, reverse : {Undef}, sortKey : {Undef}]
    \cup [query : {Undef}, limit : {Str("5")}, after : {Undef},
          before : {Undef}, reverse : {Undef}, sortKey : {Undef}]

\* arguments of a get-order-by-id call, valid and invalid
AllOrderArgs ==
    [orderId : {Undef, Null, Num(1), Str(""), Str("gid://shopify/Order/1"),
                Str("gid://shopify/Order/2")}]

FewOrderArgs ==
    [orderId : {Str(""), Str("gid://shopify/Order/1"), Str("gid://shopify/Order/2")}]

\* outcomes of the execute of a tool outside src/
OtherOutcomes ==
    {Return(Obj(<< <<"products", Arr(<<>>)>> >>)),
     Throw("Failed to fetch products: fetch failed")}

OtherTools == Tools \ {"getOrders", "getOrderById"}

\* the --accessToken / --domain options of the command line (absent, bare,
\* or with a text), and the values of the environment variables
AllArgvTokens == {Undef, Flag, Str(""), Str("shpat_cli"), Str("0"), Str("007")}
AllEnvTokens == {Undef, Str(""), Str("shpat_env")}
AllArgvDomains == {Undef, Flag, Str(""), Str("cli.myshopify.com"), Str("0")}
AllEnvDomains == {Undef, Str(""), Str("env.myshopify.com")}

-----------------------------------------------------------------------------
(* Specifications *)

\* the state after the command line is parsed and .env is loaded
InitWith(argvTokens, envTokens, argvDomains, envDomains) ==
    /\ launch \in [accessToken : argvTokens, domain : argvDomains,
                    SHOPIFY_ACCESS_TOKEN : envTokens, MYSHOPIFY_DOMAIN : envDomains]
    /\ argv = [accessToken |-> Minimist(launch.accessToken),
               domain |-> Minimist(launch.domain)]
    /\ env = [SHOPIFY_ACCESS_TOKEN |-> launch.SHOPIFY_ACCESS_TOKEN,
              MYSHOPIFY_DOMAIN |-> launch.MYSHOPIFY_DOMAIN]
    /\ SHOPIFY_ACCESS_TOKEN = Undef
    /\ MYSHOPIFY_DOMAIN = Undef
    /\ pc = "resolve"
    /\ ip = 1
    /\ stderr = <<>>
    /\ exitCode = <<>>
    /\ shopifyClient = Undef
    /\ toolClient = [m \in Tools |-> Undef]
    /\ registered = <<>>
    /\ connected = FALSE
    /\ calls = [c \in 1..MaxCalls |-> IdleCall]
    /\ requests = [c \in 1..MaxCalls |-> <<>>]

Startup ==
    \/ ResolveConfig
    \/ CheckAccessToken
    \/ CheckDomain
    \/ CreateClient
    \/ InitializeTool
    \/ RegisterTool
    \/ Connect

\* concurrent calls, few inputs
Init ==
    InitWith({Undef, Str("shpat_cli")}, {Undef}, {Undef, Str("cli.myshopify.com")},
             {Undef})

Next ==
    \/ Startup
    \/ \E c \in 1..MaxCalls :
        \/ \E raw \in FewOrdersArgs : CallGetOrders(c, raw)
        \/ \E raw \in FewOrderArgs : CallGetOrderById(c, raw)
        \/ \E r \in FewOrdersResponses : GetOrdersSettled(c, r)
        \/ \E r \in FewOrderResponses : GetOrderByIdSettled(c, r)
        \/ \E o \in {Throw("Failed to fetch products: fetch failed")} :
                CallOtherTool(c, "getProducts", o)

Spec == Init /\ [][Next]_vars

\* one call, every shape of arguments and responses
NextInputs ==
    \/ Startup
    \/ \E c \in {1} :
        \/ \E raw \in AllOrdersArgs : CallGetOrders(c, raw)
        \/ \E raw \in AllOrderArgs : CallGetOrderById(c, raw)
        \/ \E r \in AllOrdersResponses : GetOrdersSettled(c, r)
        \/ \E r \in AllOrderResponses : GetOrderByIdSettled(c, r)
        \/ \E m \in OtherTools, o \in OtherOutcomes : CallOtherTool(c, m, o)

SpecInputs == Init /\ [][NextInputs]_vars

\* every command line and environment, one call
InitStartup ==
    InitWith(AllArgvTokens, AllEnvTokens, AllArgvDomains, AllEnvDomains)

NextStartup ==
    \/ Startup
    \/ \E c \in {1} :
        \/ \E raw \in FewOrdersArgs : CallGetOrders(c, raw)
        \/ \E raw \in FewOrderArgs : CallGetOrderById(c, raw)
        \/ \E r \in FewOrdersResponses : GetOrdersSettled(c, r)
        \/ \E r \in FewOrderResponses : GetOrderByIdSettled(c, r)
        \/ \E o \in {Throw("Failed to fetch products: fetch failed")} :
                CallOtherTool(c, "getProducts", o)

SpecStartup == InitStartup /\ [][NextStartup]_vars

-----------------------------------------------------------------------------
(* Properties *)

StartsWith(s, prefix) ==
    Len(s) >= Len(prefix) /\ SubSeq(s, 1, Len(prefix)) = prefix

NonEmptyString(x) == x.t = "string" /\ x.v # ""

Executed(c, m) == calls[c].st \in {"awaiting", "done"} /\ calls[c].tool = m

Done(c, m) == calls[c].st = "done" /\ calls[c].tool = m

\* the request of call c
RequestOf(c) == requests[c][1]

\* data carries orders.edges as an array of edges that are not null
HasEdges(data) ==
    /\ data.t = "object"
    /\ Get(data, "orders").t = "object"
    /\ Get(Get(data, "orders"), "edges").t = "array"
    /\ \A i \in 1..Len(Get(Get(data, "orders"), "edges").v) :
            Get(Get(data, "orders"), "edges").v[i].t \notin {"undefined", "null"}

EdgesOf(data) == Get(Get(data, "orders"), "edges").v

\* the messages of the TypeErrors the reshaping of a response can throw
ReshapeErrors ==
    {"Cannot read properties of " \o t \o " (reading '" \o k \o "')" :
        t \in {"undefined", "null"}, k \in {"orders", "edges", "map", "node"}}
    \cup {"data.orders.edges.map is not a function"}

\* C1: a get-orders call whose request is rejected, or whose response has no
\* orders/edges to reshape, fails with "Failed to fetch orders: " followed by
\* the message of the original error, and the handler fails with the same
\* error; a result is returned only for a response that has its edges.
C1_OrdersFailurePrefixed ==
    \A c \in DOMAIN calls : Done(c, "getOrders") =>
        LET r == calls[c].response
            out == calls[c].outcome
        IN /\ (r # Undef /\ ~r.ok) =>
                out = Throw("Failed to fetch orders: " \o r.message)
           /\ (r # Undef /\ r.ok /\ ~HasEdges(r.value)) =>
                /\ ~out.ok
                /\ \E m \in ReshapeErrors :
                        out.message = "Failed to fetch orders: " \o m
           /\ out.ok => r # Undef /\ r.ok /\ HasEdges(r.value)
           /\ ~out.ok => calls[c].answer = out

\* a response without orders made the call fail
C1_Witness ==
    \E c \in DOMAIN calls :
        /\ Done(c, "getOrders")
        /\ calls[c].response = Return(Obj(<<>>))
        /\ calls[c].answer =
            Throw("Failed to fetch orders: Cannot read properties of undefined (reading 'edges')")

\* C2: a get-order-by-id call returns only the non-null order of the response,
\* unchanged; otherwise it fails with a message starting "Failed to fetch
\* order: ", which for a null order is "Failed to fetch order: Order not found
\* with ID: <orderId>".
C2_OrderOrFailure ==
    \A c \in DOMAIN calls : Done(c, "getOrderById") =>
        LET r == calls[c].response
            out == calls[c].outcome
        IN /\ out.ok =>
                /\ r # Undef /\ r.ok
                /\ Get(r.value, "order").t \notin {"null", "undefined"}
                /\ out.value = Get(r.value, "order")
           /\ ~out.ok => StartsWith(out.message, "Failed to fetch order: ")
           /\ (r # Undef /\ r.ok /\ r.value.t = "object"
                    /\ Get(r.value, "order").t \in {"null", "undefined"}) =>
                out = Throw("Failed to fetch order: Order not found with ID: "
                                \o calls[c].raw.orderId.v)

\* the request succeeded and the order is null
C2_Witness ==
    \E c \in DOMAIN calls :
        /\ Done(c, "getOrderById")
        /\ calls[c].response = Return(Obj(<< <<"order", Null>> >>))
        /\ calls[c].outcome =
            Throw("Failed to fetch order: Order not found with ID: gid://shopify/Order/2")

\* C3: every invocation of getOrders.execute and of getOrderById.execute has
\* issued exactly one request, also after the request failed or returned no
\* order; a call that did not reach execute has issued none.
C3_ExactlyOneRequest ==
    \A c \in DOMAIN calls :
        /\ (Executed(c, "getOrders") \/ Executed(c, "getOrderById")) =>
                Len(requests[c]) = 1
        /\ calls[c].st \in {"idle", "invalid"} => Len(requests[c]) = 0

\* one call ended by a rejected request, another by a null order
C3_Witness ==
    \E c, d \in DOMAIN calls :
        /\ Done(c, "getOrders") /\ calls[c].response = Throw("fetch failed")
        /\ Len(requests[c]) = 1
        /\ Done(d, "getOrderById")
        /\ calls[d].response = Return(Obj(<< <<"order", Null>> >>))
        /\ Len(requests[d]) = 1

\* C4: the variables of a get-orders request carry exactly one of first and
\* last, with the input limit: last and before when before is a non-empty
\* string (also when after is given), else first, with after exactly when
\* after is a non-empty string.
C4_PaginationVariables ==
    \A c \in DOMAIN calls : Executed(c, "getOrders") =>
        LET v == RequestOf(c).variables
            in == calls[c].input
        IN /\ HasKey(v, "first") # HasKey(v, "last")
           /\ IF NonEmptyString(in.before)
              THEN /\ HasKey(v, "last") /\ Get(v, "last") = in.limit
                   /\ HasKey(v, "before") /\ Get(v, "before") = in.before
                   /\ ~HasKey(v, "first") /\ ~HasKey(v, "after")
              ELSE /\ HasKey(v, "first") /\ Get(v, "first") = in.limit
                   /\ HasKey(v, "after") <=> NonEmptyString(in.after)
                   /\ HasKey(v, "after") => Get(v, "after") = in.after
                   /\ ~HasKey(v, "last") /\ ~HasKey(v, "before")

\* both cursors were given and the request pages backwards
C4_Witness ==
    \E c \in DOMAIN calls :
        /\ Executed(c, "getOrders")
        /\ calls[c].raw.after = Str("curA") /\ calls[c].raw.before = Str("curB")
        /\ calls[c].raw.limit = Undef
        /\ Get(RequestOf(c).variables, "last") = Num(10)
        /\ Get(RequestOf(c).variables, "before") = Str("curB")

\* C5: the result of a get-orders call has orders and cursors of the length
\* of the response's edges, orders[i] and cursors[i] the node and the cursor
\* of edge i, and the response's pageInfo.
C5_EdgesFlattened ==
    \A c \in DOMAIN calls :
        (Done(c, "getOrders") /\ calls[c].response # Undef
            /\ calls[c].response.ok /\ HasEdges(calls[c].response.value)) =>
        LET data == calls[c].response.value
            es == EdgesOf(data)
            out == calls[c].outcome
        IN /\ out.ok
           /\ Get(out.value, "orders").t = "array"
           /\ Get(out.value, "cursors").t = "array"
           /\ Len(Get(out.value, "orders").v) = Len(es)
           /\ Len(Get(out.value, "cursors").v) = Len(es)
           /\ \A i \in 1..Len(es) :
                /\ Get(out.value, "orders").v[i] = Get(es[i], "node")
                /\ Get(out.value, "cursors").v[i] = Get(es[i], "cursor")
           /\ Get(out.value, "pageInfo") = Get(Get(data, "orders"), "pageInfo")

\* the same edge twice in a response is twice in the result
C5_Witness ==
    \E c \in DOMAIN calls :
        /\ Done(c, "getOrders")
        /\ calls[c].response =
            Return(OrdersData(<<Edge(Order2, "c2"), Edge(Order2, "c2")>>, PageInfo1))
        /\ calls[c].outcome =
            Return(Obj(<< <<"orders", Arr(<<Order2, Order2>>)>>,
                          <<"pageInfo", PageInfo1>>,
                          <<"cursors", Arr(<<Str("c2"), Str("c2")>>)>> >>))

\* the arguments satisfy the get-orders schema
OrdersArgsOk(raw) ==
    /\ raw.query.t \in {"undefined", "string"}
    /\ raw.limit.t \in {"undefined", "number"}
    /\ raw.after.t \in {"undefined", "string"}
    /\ raw.before.t \in {"undefined", "string"}
    /\ raw.reverse.t \in {"undefined", "boolean"}
    /\ raw.sortKey \in
        {Undef, Str("CREATED_AT"), Str("CUSTOMER_NAME"), Str("ID"),
         Str("ORDER_NUMBER"), Str("PROCESSED_AT"), Str("TOTAL_PRICE"),
         Str("UPDATED_AT")}

\* the arguments satisfy the get-order-by-id schema
OrderArgsOk(raw) == raw.orderId.t = "string" /\ raw.orderId.v # ""

\* C6: a get-orders or get-order-by-id call whose arguments do not satisfy the
\* tool's schema is refused: it does not reach execute and issues no request;
\* a request is issued only for arguments that satisfy the schema.
C6_InvalidArgumentsRefused ==
    \A c \in DOMAIN calls :
        (calls[c].st # "idle" /\ calls[c].tool \in {"getOrders", "getOrderById"}) =>
        LET ok == IF calls[c].tool = "getOrders" THEN OrdersArgsOk(calls[c].raw)
                  ELSE OrderArgsOk(calls[c].raw)
        IN /\ ~ok => /\ calls[c].st = "invalid"
                     /\ calls[c].input = Undef
                     /\ requests[c] = <<>>
                     /\ ~calls[c].answer.ok
           /\ requests[c] # <<>> => ok
           /\ ok => calls[c].st \in {"awaiting", "done"}

\* a sortKey outside the seven keys was refused
C6_Witness ==
    \E c \in DOMAIN calls :
        /\ calls[c].st = "invalid"
        /\ calls[c].raw =
            [query |-> Undef, limit |-> Num(5), after |-> Undef, before |-> Undef,
             reverse |-> Undef, sortKey |-> Str("PRICE")]
        /\ requests[c] = <<>>

\* the input field a request variable is filled from
SourceField(k) ==
    CASE k \in {"first", "last"} -> "limit"
      [] k = "id" -> "orderId"
      [] OTHER -> k

\* the variables of call c are values of its own input, and its result is
\* made of its own response
OwnData(c) ==
    /\ (Executed(c, "getOrders") \/ Executed(c, "getOrderById")) =>
            /\ Len(requests[c]) = 1
            /\ \A i \in 1..Len(RequestOf(c).variables.v) :
                    RequestOf(c).variables.v[i][2] =
                        calls[c].input[SourceField(RequestOf(c).variables.v[i][1])]
            /\ RequestOf(c).client = toolClient[calls[c].tool]
    /\ (Done(c, "getOrderById") /\ calls[c].outcome.ok) =>
            calls[c].outcome.value = Get(calls[c].response.value, "order")
    /\ (Done(c, "getOrders") /\ calls[c].outcome.ok) =>
            /\ HasEdges(calls[c].response.value)
            /\ Get(calls[c].outcome.value, "orders") =
                Arr([i \in 1..Len(EdgesOf(calls[c].response.value)) |->
                        Get(EdgesOf(calls[c].response.value)[i], "node")])

\* two calls of one tool with the same input send the same variables, and
\* with the same response end the same way
SameInSameOut(c, d) ==
    (calls[c].tool = calls[d].tool /\ calls[c].raw = calls[d].raw) =>
        /\ (calls[c].st = "awaiting" /\ calls[d].st \in {"awaiting", "done"}) =>
                requests[c] = requests[d]
        /\ (calls[c].st = "done" /\ calls[d].st = "done"
                /\ calls[c].response = calls[d].response) =>
                /\ requests[c] = requests[d]
                /\ calls[c].outcome = calls[d].outcome
                /\ calls[c].answer = calls[d].answer

\* C7: under every interleaving of concurrent get-orders and get-order-by-id
\* calls, each call sends variables made of its own input and ends with an
\* outcome made of its own input and its own response, and no step of a call
\* changes the client of any tool module: only the initialize statements do.
C7_CallsIndependent ==
    /\ [](\A c \in DOMAIN calls : OwnData(c))
    /\ [](\A c, d \in DOMAIN calls : SameInSameOut(c, d))
    /\ [][toolClient' # toolClient => pc = "initialize"]_vars

\* two get-orders calls with different inputs in flight at once
C7_Witness ==
    \E c, d \in DOMAIN calls :
        /\ calls[c].st = "awaiting" /\ calls[c].tool = "getOrders"
        /\ calls[d].st = "awaiting" /\ calls[d].tool = "getOrders"
        /\ Get(RequestOf(c).variables, "first") = Num(5)
        /\ Get(RequestOf(d).variables, "last") = Num(7)

\* C8: when execute returns a result the handler answers with one content
\* item of type "text" whose text is JSON.stringify of the result; when
\* execute fails the handler fails with the same error.
C8_HandlerAnswer ==
    \A c \in DOMAIN calls : calls[c].st = "done" =>
        LET out == calls[c].outcome
            ans == calls[c].answer
        IN /\ out.ok =>
                /\ ans.ok
                /\ DOMAIN ans.value = {"content"}
                /\ Len(ans.value.content) = 1
                /\ ans.value.content[1].type = "text"
                /\ ans.value.content[1].text = JSONStringify(out.value)
                /\ out.value = Order1 =>
                    ans.value.content[1].text =
                        Str("{\"id\":\"gid://shopify/Order/1\",\"name\":\"#1001\"}")
           /\ ~out.ok => ans = out

\* a page of one order without pageInfo, serialized
C8_Witness ==
    \E c \in DOMAIN calls :
        /\ Done(c, "getOrders")
        /\ calls[c].response = Return(OrdersData(<<Edge(Order1, "c1")>>, Undef))
        /\ calls[c].answer.ok
        /\ calls[c].answer.value.content[1].text =
            Str("{\"orders\":[{\"id\":\"gid://shopify/Order/1\",\"name\":\"#1001\"}],\"cursors\":[\"c1\"]}")

\* C9: once the server is connected, and so whenever a tool call is executed,
\* each of the eleven tool modules holds the one Shopify client and the
\* eleven tools are registered under eleven distinct names; every request is
\* made on that client.
C9_InitializedBeforeConnect ==
    /\ (connected \/ pc = "serving" \/ \E c \in DOMAIN calls : calls[c].st # "idle") =>
            /\ shopifyClient.t = "client"
            /\ \A m \in Tools : toolClient[m] = shopifyClient
            /\ Len(registered) = 11
            /\ Cardinality({registered[i] : i \in 1..Len(registered)}) = 11
            /\ {registered[i] : i \in 1..Len(registered)} =
                    {RegisteredName[m] : m \in Tools}
    /\ \A c \in DOMAIN calls : \A i \in 1..Len(requests[c]) :
            requests[c][i].client = shopifyClient
    /\ registered # <<>> => \A m \in Tools : toolClient[m] = shopifyClient

\* a request made on the client after the server connected
C9_Witness ==
    /\ connected
    /\ \E c \in DOMAIN calls :
            /\ calls[c].st = "awaiting"
            /\ RequestOf(c).client = shopifyClient
            /\ shopifyClient.t = "client"

MissingOrEmpty(x) == x = Undef \/ x = Str("")

\* C10: with the access token or the shop domain missing or empty the script
\* stops at its check with exit code 1: no client is created, no tool is
\* initialized or registered, the server does not connect; the token is
\* checked first and only its error is reported when both are missing.
C10_ExitBeforeClient ==
    /\ exitCode # <<>> =>
            /\ exitCode = <<1>>
            /\ pc = "exited"
            /\ shopifyClient = Undef
            /\ \A m \in Tools : toolClient[m] = Undef
            /\ registered = <<>>
            /\ ~connected
            /\ \A c \in DOMAIN calls : calls[c].st = "idle"
            /\ MissingOrEmpty(SHOPIFY_ACCESS_TOKEN) \/ MissingOrEmpty(MYSHOPIFY_DOMAIN)
    /\ (pc \notin {"resolve", "checkToken"} /\ MissingOrEmpty(SHOPIFY_ACCESS_TOKEN)) =>
            /\ pc = "exited" /\ exitCode = <<1>>
            /\ Len(stderr) = 3
            /\ stderr[1] = "Error: SHOPIFY_ACCESS_TOKEN is required."
    /\ (pc \notin {"resolve", "checkToken", "checkDomain"}
            /\ ~MissingOrEmpty(SHOPIFY_ACCESS_TOKEN)
            /\ MissingOrEmpty(MYSHOPIFY_DOMAIN)) =>
            /\ pc = "exited" /\ exitCode = <<1>>
            /\ Len(stderr) = 3
            /\ stderr[1] = "Error: MYSHOPIFY_DOMAIN is required."
    /\ (shopifyClient # Undef \/ connected) =>
            /\ ~MissingOrEmpty(SHOPIFY_ACCESS_TOKEN)
            /\ ~MissingOrEmpty(MYSHOPIFY_DOMAIN)

\* both values are missing and the script exited on the token alone
C10_Witness ==
    /\ pc = "exited"
    /\ exitCode = <<1>>
    /\ MissingOrEmpty(SHOPIFY_ACCESS_TOKEN)
    /\ MissingOrEmpty(MYSHOPIFY_DOMAIN)
    /\ stderr[1] = "Error: SHOPIFY_ACCESS_TOKEN is required."
    /\ Len(stderr) = 3

\* the value the command line and the environment choose: the text of the
\* option when one is given and not empty, else the environment's value
Chosen(option, fromEnv) ==
    IF option.t = "string" /\ option.v # "" THEN option ELSE fromEnv

\* C11: the access token and the shop domain are the command line's when a
\* non-empty value is given there and the environment's otherwise; the host of
\* the client's endpoint and its X-Shopify-Access-Token header are the text
\* of these values, and every request is made on that client.
C11_ConfigFromCommandLine ==
    shopifyClient.t = "client" =>
        /\ ToStr(shopifyClient.accessToken) =
                ToStr(Chosen(launch.accessToken, launch.SHOPIFY_ACCESS_TOKEN))
        /\ shopifyClient.endpoint =
                "https://"
                    \o ToStr(Chosen(launch.domain, launch.MYSHOPIFY_DOMAIN))
                    \o "/admin/api/2025-01/graphql.json"
        /\ \A c \in DOMAIN calls : \A i \in 1..Len(requests[c]) :
                requests[c][i].client = shopifyClient

\* the value of the one of first and last that the variables carry
PageSize(v) == IF HasKey(v, "first") THEN Get(v, "first") ELSE Get(v, "last")

\* C12: every get-orders request carries reverse and sortKey: false,
\* PROCESSED_AT and a limit of 10 where the caller omits them, the caller's
\* values where given; it carries query exactly when the caller's query is a
\* non-empty string, and then that string.
C12_DefaultsAndQuery ==
    \A c \in DOMAIN calls : Executed(c, "getOrders") =>
        LET v == RequestOf(c).variables
            raw == calls[c].raw
        IN /\ HasKey(v, "reverse") /\ HasKey(v, "sortKey")
           /\ Get(v, "reverse") =
                (IF raw.reverse = Undef THEN Bool(FALSE) ELSE raw.reverse)
           /\ Get(v, "sortKey") =
                (IF raw.sortKey = Undef THEN Str("PROCESSED_AT") ELSE raw.sortKey)
           /\ PageSize(v) = (IF raw.limit = Undef THEN Num(10) ELSE raw.limit)
           /\ HasKey(v, "query") <=> NonEmptyString(raw.query)
           /\ HasKey(v, "query") => Get(v, "query") = raw.query

\* a call with an empty query and nothing else sends the three defaults and
\* no query
C12_Witness ==
    \E c \in DOMAIN calls :
        /\ Executed(c, "getOrders")
        /\ calls[c].raw =
            [query |-> Str(""), limit |-> Undef, after |-> Undef, before |-> Undef,
             reverse |-> Undef, sortKey |-> Undef]
        /\ RequestOf(c).variables =
            Obj(<< <<"reverse", Bool(FALSE)>>, <<"sortKey", Str("PROCESSED_AT")>>,
                   <<"first", Num(10)>> >>)

====
